---- MODULE Spec2Model ----
(***************************************************************************)
(* A model of midterm/compiler.py: a lexer, a recursive-descent parser, a  *)
(* bytecode generator and a stack machine, run in sequence by              *)
(* run_compiler(source).                                                   *)
(*                                                                         *)
(* Python values are modelled as follows.  A string is a sequence of       *)
(* one-character strings; positions are 0-based as in Python, so           *)
(* text[pos] is CharAt(text, pos).  A tuple is a TLA+ tuple.  None is the  *)
(* one-element tuple None.  An uncaught exception is a record [exc, msg]   *)
(* holding the exception class and the parts of its message.               *)
(***************************************************************************)
EXTENDS Integers, Sequences, FiniteSets, TLC

(***************************************************************************)
(* Bounds of the model.                                                    *)
(***************************************************************************)
\* arbitrary sources: sequences of at most MaxToks lexemes
MaxToks == 3
\* grammatical sources: programs whose expressions hold at most MaxLeaves
\* operands in total
MaxLeaves == 3
\* iterations of the statement loop of Parser.parse that the model follows
MaxIter == 3
\* bytecode-level specification: operators of the expression, and depth of
\* the operand stack it starts from
MaxOps == 2
MaxDepth == 2
\* lexer-level specification: pieces a text is written from, and calls of
\* next_token the caller makes
MaxPieces == 3
MaxCalls == 5
\* parser-level specification: lexemes of a source
MaxWords == 4

(***************************************************************************)
(* Token types (compiler.py:4-7).                                          *)
(***************************************************************************)
NUMBER == "NUMBER"
PLUS == "PLUS"
MINUS == "MINUS"
TIMES == "TIMES"
DIVIDE == "DIVIDE"
LPAREN == "LPAREN"
RPAREN == "RPAREN"
IDENT == "IDENT"
ASSIGN == "ASSIGN"
PRINT == "PRINT"
EOF == "EOF"

None == <<"None">>

NoErr == [exc |-> "", msg |-> <<>>]
Raise(exc, msg) == [exc |-> exc, msg |-> msg]

\* Token.__init__
Token(type_, value) == [type |-> type_, value |-> value]

(***************************************************************************)
(* Character classes: str.isspace, str.isdigit, str.isalpha, str.isalnum   *)
(* restricted to ASCII.                                                    *)
(***************************************************************************)
DigitChars == <<"0", "1", "2", "3", "4", "5", "6", "7", "8", "9">>

isspace(c) == c \in {" ", "\t", "\n", "\r"}
isdigit(c) == \E i \in 1..10 : DigitChars[i] = c
isalpha(c) ==
    c \in {"a", "b", "c", "d", "e", "f", "g", "h", "i", "j", "k", "l", "m",
           "n", "o", "p", "q", "r", "s", "t", "u", "v", "w", "x", "y", "z",
           "A", "B", "C", "D", "E", "F", "G", "H", "I", "J", "K", "L", "M",
           "N", "O", "P", "Q", "R", "S", "T", "U", "V", "W", "X", "Y", "Z"}
\* isalnum as isalpha: digits do not continue a word
isalnumLetters(c) == isalpha(c)

isalnum(c) == isalpha(c) \/ isdigit(c)

CharAt(text, i) == text[i + 1]
\* text[start:stop]
Slice(text, start, stop) == SubSeq(text, start + 1, stop)

DigitVal(c) == (CHOOSE i \in 1..10 : DigitChars[i] = c) - 1

\* int(s) for a non-empty string of decimal digits
RECURSIVE int(_)
int(s) ==
    IF Len(s) = 0 THEN 0
    ELSE 10 * int(SubSeq(s, 1, Len(s) - 1)) + DigitVal(s[Len(s)])

\* str(n) for an integer n
RECURSIVE strNat(_)
strNat(n) ==
    IF n < 10 THEN <<DigitChars[n + 1]>>
    ELSE strNat(n \div 10) \o <<DigitChars[(n % 10) + 1]>>

str(n) == IF n < 0 THEN <<"-">> \o strNat(0 - n) ELSE strNat(n)

(***************************************************************************)
(* Lexer.next_token (compiler.py:23-56).  The three while loops advance    *)
(* pos over a run of characters of one class.                              *)
(***************************************************************************)
\* SkipSpace with `<=` for `<` in the loop's bound check: at the end of the
\* text it steps once more
RECURSIVE SkipSpaceOverrun(_, _)
SkipSpaceOverrun(text, pos) ==
    IF pos < Len(text) /\ isspace(CharAt(text, pos))
    THEN SkipSpaceOverrun(text, pos + 1)
    ELSE IF pos >= Len(text) THEN pos + 1 ELSE pos

RECURSIVE SkipSpace(_, _)
SkipSpace(text, pos) ==
    IF pos < Len(text) /\ isspace(CharAt(text, pos))
    THEN SkipSpace(text, pos + 1) ELSE pos

RECURSIVE ScanDigits(_, _)
ScanDigits(text, pos) ==
    IF pos < Len(text) /\ isdigit(CharAt(text, pos))
    THEN ScanDigits(text, pos + 1) ELSE pos

\* ScanAlnum without the loop: the word is left where it is
ScanAlnumStuck(text, pos) == pos

RECURSIVE ScanAlnum(_, _)
ScanAlnum(text, pos) ==
    IF pos < Len(text) /\ isalnum(CharAt(text, pos))
    THEN ScanAlnum(text, pos + 1) ELSE pos

Symbol(char) ==
    CASE char = "+" -> PLUS
      [] char = "-" -> MINUS
      [] char = "*" -> TIMES
      [] char = "/" -> DIVIDE
      [] char = "(" -> LPAREN
      [] char = ")" -> RPAREN
      [] char = "=" -> ASSIGN
      [] OTHER -> ""

\* The result is the returned token, the lexer's pos afterwards and the
\* exception raised, if any.
next_token(text, pos0) ==
    LET pos == SkipSpace(text, pos0) IN
    IF pos >= Len(text)
    THEN [tok |-> Token(EOF, None), pos |-> pos, err |-> NoErr]
    ELSE LET char == CharAt(text, pos) IN
         IF isdigit(char)
         THEN LET stop == ScanDigits(text, pos) IN
              [tok |-> Token(NUMBER, int(Slice(text, pos, stop))),
               pos |-> stop, err |-> NoErr]
         ELSE IF isalpha(char)
         THEN LET stop == ScanAlnum(text, pos)
                  word == Slice(text, pos, stop) IN
              IF word = <<"p", "r", "i", "n", "t">>
              THEN [tok |-> Token(PRINT, None), pos |-> stop, err |-> NoErr]
              ELSE [tok |-> Token(IDENT, word), pos |-> stop, err |-> NoErr]
         ELSE IF Symbol(char) # ""
         THEN [tok |-> Token(Symbol(char), None), pos |-> pos + 1,
               err |-> NoErr]
         ELSE [tok |-> Token(EOF, None), pos |-> pos + 1,
               err |-> Raise("Exception", <<"Unknown character", char>>)]

(***************************************************************************)
(* Parser (compiler.py:66-124).  The parser's state is the lexer's pos and *)
(* the current token; every method returns its node together with the      *)
(* state it leaves and the exception it raised, if any.  The source never   *)
(* changes during a parse, so it is passed along as text.                   *)
(***************************************************************************)
Result(node, pos, token, err) ==
    [node |-> node, pos |-> pos, token |-> token, err |-> err]

Failed(r) == r.err # NoErr

\* eat that advances on a match and lets a mismatch pass
eatLenient(text, st, token_type) ==
    IF st.token.type = token_type
    THEN LET t == next_token(text, st.pos) IN
         IF t.err # NoErr
         THEN Result(st.node, t.pos, st.token, t.err)
         ELSE Result(st.node, t.pos, t.tok, NoErr)
    ELSE Result(st.node, st.pos, st.token, NoErr)

\* Parser.eat
eat(text, st, token_type) ==
    IF st.token.type = token_type
    THEN LET t == next_token(text, st.pos) IN
         IF t.err # NoErr
         THEN Result(st.node, t.pos, st.token, t.err)
         ELSE Result(st.node, t.pos, t.tok, NoErr)
    ELSE Result(st.node, st.pos, st.token,
                Raise("Exception", <<"Expected", token_type, "got", st.token.type>>))

\* r, unless it raised; else the rest of the method, K, run on r
AndThen(r, K(_)) == IF Failed(r) THEN r ELSE K(r)

\* return node in the parser state st
Return(st, node) == Result(node, st.pos, st.token, NoErr)

RECURSIVE factor(_, _), term(_, _), termLoop(_, _), expr(_, _), exprLoop(_, _)

\* Parser.factor: no branch is taken, and None is returned, when the current
\* token is none of NUMBER, IDENT, LPAREN
factor(text, st) ==
    IF st.token.type = NUMBER
    THEN AndThen(eat(text, st, NUMBER),
                 LAMBDA e : Return(e, <<"number", st.token.value>>))
    ELSE IF st.token.type = IDENT
    THEN AndThen(eat(text, st, IDENT),
                 LAMBDA e : Return(e, <<"var", st.token.value>>))
    ELSE IF st.token.type = LPAREN
    THEN AndThen(eat(text, st, LPAREN),
                 LAMBDA e : AndThen(expr(text, e),
                 LAMBDA node : eat(text, node, RPAREN)))
    ELSE Return(st, None)

\* the while loop of Parser.term; st.node is the node built so far
termLoop(text, st) ==
    IF st.token.type \in {TIMES, DIVIDE}
    THEN AndThen(eat(text, st, st.token.type),
                 LAMBDA e : AndThen(factor(text, e),
                 LAMBDA f : termLoop(text,
                     Return(f, <<"binop", st.token.type, st.node, f.node>>))))
    ELSE st

\* Parser.term
term(text, st) ==
    AndThen(factor(text, st), LAMBDA node : termLoop(text, node))

\* the while loop of Parser.expr; st.node is the node built so far
exprLoop(text, st) ==
    IF st.token.type \in {PLUS, MINUS}
    THEN AndThen(eat(text, st, st.token.type),
                 LAMBDA e : AndThen(term(text, e),
                 LAMBDA t : exprLoop(text,
                     Return(t, <<"binop", st.token.type, st.node, t.node>>))))
    ELSE st

\* Parser.expr
expr(text, st) ==
    AndThen(term(text, st), LAMBDA node : exprLoop(text, node))

\* Parser.statement: no branch is taken, and None is returned, when the
\* current token is neither IDENT nor PRINT
statement(text, st) ==
    IF st.token.type = IDENT
    THEN AndThen(eat(text, st, IDENT),
                 LAMBDA e1 : AndThen(eat(text, e1, ASSIGN),
                 LAMBDA e2 : AndThen(expr(text, e2),
                 LAMBDA e : Return(e, <<"assign", st.token.value, e.node>>))))
    ELSE IF st.token.type = PRINT
    THEN AndThen(eat(text, st, PRINT),
                 LAMBDA e1 : AndThen(expr(text, e1),
                 LAMBDA e : Return(e, <<"print", e.node>>)))
    ELSE Return(st, None)

(***************************************************************************)
(* CodeGen.gen (compiler.py:132-150): the instructions appended for node,  *)
(* and the exception raised, if any.  node[0] of None raises TypeError.     *)
(***************************************************************************)
ops(op) ==
    CASE op = PLUS -> "ADD"
      [] op = MINUS -> "SUB"
      [] op = TIMES -> "MUL"
      [] op = DIVIDE -> "DIV"

Emitted(code, err) == [code |-> code, err |-> err]

\* genBinOp without self.gen(right)
genBinOpLeftOnly(op, left, right) ==
    IF left.err # NoErr THEN left
    ELSE Emitted(left.code \o <<<<ops(op)>>>>, NoErr)

\* the binop branch, given what gen(left) and gen(right) appended
genBinOp(op, left, right) ==
    IF left.err # NoErr THEN left
    ELSE IF right.err # NoErr THEN Emitted(left.code \o right.code, right.err)
    ELSE Emitted(left.code \o right.code \o <<<<ops(op)>>>>, NoErr)

\* the assign and print branches, given what gen of the expression appended
genStmt(e, instr) ==
    IF e.err # NoErr THEN e ELSE Emitted(e.code \o <<instr>>, NoErr)

RECURSIVE gen(_)
gen(node) ==
    IF node = None
    THEN Emitted(<<>>, Raise("TypeError", <<"'NoneType' object is not subscriptable">>))
    ELSE CASE node[1] = "number" -> Emitted(<<<<"PUSH", node[2]>>>>, NoErr)
           [] node[1] = "var" -> Emitted(<<<<"LOAD", node[2]>>>>, NoErr)
           [] node[1] = "binop" -> genBinOp(node[2], gen(node[3]), gen(node[4]))
           [] node[1] = "assign" -> genStmt(gen(node[3]), <<"STORE", node[2]>>)
           [] node[1] = "print" -> genStmt(gen(node[2]), <<"PRINT">>)
           [] OTHER -> Emitted(<<>>, NoErr)

(***************************************************************************)
(* One iteration of the loop of VM.run (compiler.py:160-182): the effect   *)
(* of instruction instr on the operand stack, the variable store and the   *)
(* printed lines.  list.pop() of an empty list raises IndexError, a        *)
(* missing dictionary key KeyError, a // 0 ZeroDivisionError.              *)
(***************************************************************************)
Machine(stack, vars, output, err) ==
    [stack |-> stack, vars |-> vars, output |-> output, err |-> err]

Top(stack) == stack[Len(stack)]
Pop(stack) == SubSeq(stack, 1, Len(stack) - 1)

EmptyPop == Raise("IndexError", <<"pop from empty list">>)

\* FloorDiv as int(a / b): the quotient rounded toward zero
TruncDiv(a, b) ==
    IF (a < 0) = (b < 0)
    THEN (IF a < 0 THEN 0 - a ELSE a) \div (IF b < 0 THEN 0 - b ELSE b)
    ELSE 0 - ((IF a < 0 THEN 0 - a ELSE a) \div (IF b < 0 THEN 0 - b ELSE b))

\* Python's a // b for b # 0: the quotient rounded toward minus infinity
FloorDiv(a, b) == IF b > 0 THEN a \div b ELSE (0 - a) \div (0 - b)

\* Arith computing right op left
ArithSwapped(op, a, b) ==
    CASE op = "ADD" -> b + a
      [] op = "SUB" -> b - a
      [] op = "MUL" -> b * a
      [] op = "DIV" -> FloorDiv(b, a)

Arith(op, a, b) ==
    CASE op = "ADD" -> a + b
      [] op = "SUB" -> a - b
      [] op = "MUL" -> a * b
      [] op = "DIV" -> FloorDiv(a, b)

\* Bind as self.vars.setdefault(name, val): a bound name keeps its value
BindFirst(vars, name, val) ==
    [n \in (DOMAIN vars) \cup {name} |->
        IF n \in DOMAIN vars THEN vars[n] ELSE val]

\* self.vars[name] = val
Bind(vars, name, val) ==
    [n \in (DOMAIN vars) \cup {name} |-> IF n = name THEN val ELSE vars[n]]

ExecPush(instr, stack, vars, output) ==
    Machine(Append(stack, instr[2]), vars, output, NoErr)

\* ExecLoad with self.vars.get(name, 0)
ExecLoadDefault(instr, stack, vars, output) ==
    IF instr[2] \in DOMAIN vars
    THEN Machine(Append(stack, vars[instr[2]]), vars, output, NoErr)
    ELSE Machine(Append(stack, 0), vars, output, NoErr)

ExecLoad(instr, stack, vars, output) ==
    IF instr[2] \in DOMAIN vars
    THEN Machine(Append(stack, vars[instr[2]]), vars, output, NoErr)
    ELSE Machine(stack, vars, output, Raise("KeyError", <<instr[2]>>))

\* ExecStore that reads val as self.stack[-1] without popping it
ExecStorePeek(instr, stack, vars, output) ==
    IF Len(stack) = 0 THEN Machine(stack, vars, output, EmptyPop)
    ELSE Machine(stack, Bind(vars, instr[2], Top(stack)), output, NoErr)

\* ExecStore that also prints the value stored
ExecStoreEcho(instr, stack, vars, output) ==
    IF Len(stack) = 0 THEN Machine(stack, vars, output, EmptyPop)
    ELSE Machine(Pop(stack), Bind(vars, instr[2], Top(stack)),
                 Append(output, str(Top(stack))), NoErr)

ExecStore(instr, stack, vars, output) ==
    IF Len(stack) = 0 THEN Machine(stack, vars, output, EmptyPop)
    ELSE Machine(Pop(stack), Bind(vars, instr[2], Top(stack)), output, NoErr)

\* ExecArith that pushes 0 for a zero divisor
ExecArithZero(instr, stack, vars, output) ==
    IF Len(stack) = 0 THEN Machine(stack, vars, output, EmptyPop)
    ELSE IF Len(stack) = 1 THEN Machine(Pop(stack), vars, output, EmptyPop)
    ELSE IF instr[1] = "DIV" /\ Top(stack) = 0
    THEN Machine(Append(Pop(Pop(stack)), 0), vars, output, NoErr)
    ELSE Machine(Append(Pop(Pop(stack)),
                        Arith(instr[1], Top(Pop(stack)), Top(stack))),
                 vars, output, NoErr)

\* ExecArith that reads a as self.stack[-1] without popping it
ExecArithPeek(instr, stack, vars, output) ==
    IF Len(stack) = 0 THEN Machine(stack, vars, output, EmptyPop)
    ELSE IF Len(stack) = 1 THEN Machine(Pop(stack), vars, output, EmptyPop)
    ELSE IF instr[1] = "DIV" /\ Top(stack) = 0
    THEN Machine(Pop(stack), vars, output,
                 Raise("ZeroDivisionError", <<"integer division or modulo by zero">>))
    ELSE Machine(Append(Pop(stack),
                        Arith(instr[1], Top(Pop(stack)), Top(stack))),
                 vars, output, NoErr)

\* b, a = self.stack.pop(), self.stack.pop(); self.stack.append(a op b)
ExecArith(instr, stack, vars, output) ==
    IF Len(stack) = 0 THEN Machine(stack, vars, output, EmptyPop)
    ELSE IF Len(stack) = 1 THEN Machine(Pop(stack), vars, output, EmptyPop)
    ELSE IF instr[1] = "DIV" /\ Top(stack) = 0
    THEN Machine(Pop(Pop(stack)), vars, output,
                 Raise("ZeroDivisionError", <<"integer division or modulo by zero">>))
    ELSE Machine(Append(Pop(Pop(stack)),
                        Arith(instr[1], Top(Pop(stack)), Top(stack))),
                 vars, output, NoErr)

ExecPrint(instr, stack, vars, output) ==
    IF Len(stack) = 0 THEN Machine(stack, vars, output, EmptyPop)
    ELSE Machine(Pop(stack), vars, Append(output, str(Top(stack))), NoErr)

Exec(instr, stack, vars, output) ==
    CASE instr[1] = "PUSH" -> ExecPush(instr, stack, vars, output)
      [] instr[1] = "LOAD" -> ExecLoad(instr, stack, vars, output)
      [] instr[1] = "STORE" -> ExecStore(instr, stack, vars, output)
      [] instr[1] \in {"ADD", "SUB", "MUL", "DIV"} -> ExecArith(instr, stack, vars, output)
      [] instr[1] = "PRINT" -> ExecPrint(instr, stack, vars, output)
      [] OTHER -> Machine(stack, vars, output, NoErr)

(***************************************************************************)
(* The inputs.  A source is a sequence of lexemes joined by single spaces. *)
(* The arbitrary sources are all sequences of at most MaxToks lexemes.  The *)
(* grammatical sources are written out from programs in the spec's data     *)
(* model (NumberLiteral, VariableRef, BinaryOp, Assign, PrintStmt), with    *)
(* parentheses exactly where the tree needs them.                           *)
(***************************************************************************)
print_ == <<"p", "r", "i", "n", "t">>
x_ == <<"x">>

Lexemes ==
    {<<"7">>, x_, print_, <<"=">>, <<"+">>, <<"-">>, <<"*">>, <<"/">>,
     <<"(">>, <<")">>, <<"&">>}

RECURSIVE SeqsUpTo(_, _)
SeqsUpTo(S, n) ==
    IF n = 0 THEN {<<>>}
    ELSE LET shorter == SeqsUpTo(S, n - 1) IN
         shorter \cup {Append(q, e) : q \in shorter, e \in S}

RECURSIVE Join(_)
Join(lexemes) ==
    IF Len(lexemes) = 0 THEN <<>>
    ELSE IF Len(lexemes) = 1 THEN lexemes[1]
    ELSE lexemes[1] \o <<" ">> \o Join(Tail(lexemes))

Operators == {"+", "-", "*", "/"}
Operands == {<<"NumberLiteral", 2>>, <<"NumberLiteral", 7>>, <<"VariableRef", x_>>}

\* A shape is a tree without its labels: <<>> is an operand and <<l, r>> a
\* binary operator over the shapes l and r.  The shapes with n operands:
RECURSIVE TreeShapes(_)
TreeShapes(n) ==
    IF n = 1 THEN {<<>>}
    ELSE UNION {{<<l, r>> : l \in TreeShapes(k), r \in TreeShapes(n - k)} :
                k \in 1..(n - 1)}

RECURSIVE Size(_)
Size(shape) == IF shape = <<>> THEN 1 ELSE Size(shape[1]) + Size(shape[2])

\* the expression of the given shape whose operands are, from left to
\* right, operands[i], operands[i + 1], ... and in which operators[k] stands
\* between operands[k] and operands[k + 1]
RECURSIVE Fill(_, _, _, _)
Fill(shape, i, operands, operators) ==
    IF shape = <<>> THEN operands[i]
    ELSE <<"BinaryOp", operators[i + Size(shape[1]) - 1],
           Fill(shape[1], i, operands, operators),
           Fill(shape[2], i + Size(shape[1]), operands, operators)>>

\* the shapes of the programs with n operands in total: a sequence of
\* statement kinds, each with the shape of its expression
RECURSIVE ProgShapes(_)
ProgShapes(n) ==
    IF n = 0 THEN {<<>>}
    ELSE UNION {{<<<<kind, t>>>> \o p :
                    kind \in {"Assign", "PrintStmt"}, t \in TreeShapes(k),
                    p \in ProgShapes(n - k)} : k \in 1..n}

\* the indices of the operands that end a statement: no operator follows them
RECURSIVE LastOperands(_, _)
LastOperands(shapes, i) ==
    IF Len(shapes) = 0 THEN {}
    ELSE {i + Size(Head(shapes)[2]) - 1}
         \cup LastOperands(Tail(shapes), i + Size(Head(shapes)[2]))

RECURSIVE FillProgram(_, _, _, _)
FillProgram(shapes, i, operands, operators) ==
    IF Len(shapes) = 0 THEN <<>>
    ELSE LET e == Fill(Head(shapes)[2], i, operands, operators)
             rest == FillProgram(Tail(shapes), i + Size(Head(shapes)[2]),
                                 operands, operators) IN
         IF Head(shapes)[1] = "Assign"
         THEN <<<<"Assign", x_, e>>>> \o rest
         ELSE <<<<"PrintStmt", e>>>> \o rest

Prec(e) ==
    IF e[1] # "BinaryOp" THEN 3
    ELSE IF e[2] \in {"*", "/"} THEN 2 ELSE 1

RECURSIVE Unparse(_)
Unparse(e) ==
    CASE e[1] = "NumberLiteral" -> <<str(e[2])>>
      [] e[1] = "VariableRef" -> <<e[2]>>
      [] e[1] = "BinaryOp" ->
            LET l == Unparse(e[3])
                r == Unparse(e[4]) IN
            (IF Prec(e[3]) < Prec(e) THEN <<<<"(">>>> \o l \o <<<<")">>>> ELSE l)
            \o <<<<e[2]>>>> \o
            (IF Prec(e[4]) <= Prec(e) THEN <<<<"(">>>> \o r \o <<<<")">>>> ELSE r)
      [] e[1] = "Assign" -> <<e[2], <<"=">>>> \o Unparse(e[3])
      [] e[1] = "PrintStmt" -> <<print_>> \o Unparse(e[2])

RECURSIVE UnparseAll(_)
UnparseAll(p) ==
    IF Len(p) = 0 THEN <<>> ELSE Unparse(Head(p)) \o UnparseAll(Tail(p))

(***************************************************************************)
(* The state of one call of run_compiler(source).                          *)
(***************************************************************************)
VARIABLES
    given,       \* how the source was chosen: a program, or lexemes
    text,        \* Lexer.text
    pos,         \* Lexer.pos
    token,       \* Parser.token
    statements,  \* the list built by Parser.parse, then ast
    stage,       \* where run_compiler is
    err,         \* the exception that ended the call, or NoErr
    next,        \* index of the next statement of the loop over ast
    bytecode,    \* CodeGen.bytecode, then VM.bytecode
    pc,          \* index of the next instruction of the loop of VM.run
    stack,       \* VM.stack
    vars,        \* VM.vars
    output,      \* the lines printed so far
    lexed        \* the tokens next_token has returned to a caller other than the parser

vars_ == <<given, text, pos, token, statements, stage, err, next, bytecode,
           pc, stack, vars, output, lexed>>

NoVars == [n \in {} |-> 0]

Start(g, src) ==
    /\ given = g
    /\ text = src
    /\ pos = 0
    /\ token = Token(EOF, None)
    /\ statements = <<>>
    /\ stage = "init"
    /\ err = NoErr
    /\ next = 1
    /\ bytecode = <<>>
    /\ pc = 1
    /\ stack = <<>>
    /\ vars = NoVars
    /\ output = <<>>
    /\ lexed = <<>>

\* the grammatical sources are all programs of at most MaxLeaves operands
InitProgram ==
    \E n \in 0..MaxLeaves :
        \E shapes \in ProgShapes(n), operands \in [1..n -> Operands] :
            \E operators \in [(1..n) \ LastOperands(shapes, 1) -> Operators] :
                LET p == FillProgram(shapes, 1, operands, operators) IN
                Start([kind |-> "program", body |-> p], Join(UnparseAll(p)))

Init ==
    \/ InitProgram
    \/ \E l \in SeqsUpTo(Lexemes, MaxToks) :
          Start([kind |-> "lexemes", body |-> l], Join(l))

Abort(e) ==
    /\ stage' = "error"
    /\ err' = e

\* Lexer.__init__ and Parser.__init__ (compiler.py:186-187)
ParserInit ==
    /\ stage = "init"
    /\ LET t == next_token(text, 0) IN
       /\ pos' = t.pos
       /\ IF t.err # NoErr
          THEN Abort(t.err) /\ UNCHANGED token
          ELSE token' = t.tok /\ stage' = "parse" /\ UNCHANGED err
    /\ UNCHANGED <<lexed, given, text, statements, next, bytecode, pc, stack, vars, output>>

\* one iteration of the while loop of Parser.parse (compiler.py:122-123)
ParseStatement ==
    /\ stage = "parse"
    /\ token.type # EOF
    /\ Len(statements) < MaxIter
    /\ LET r == statement(text, Result(None, pos, token, NoErr)) IN
       /\ pos' = r.pos
       /\ token' = r.token
       /\ IF Failed(r)
          THEN Abort(r.err) /\ UNCHANGED statements
          ELSE statements' = Append(statements, r.node) /\ UNCHANGED <<stage, err>>
    /\ UNCHANGED <<lexed, given, text, next, bytecode, pc, stack, vars, output>>

\* Parser.parse returns; CodeGen() (compiler.py:124, 188-190)
ParseReturn ==
    /\ stage = "parse"
    /\ token.type = EOF
    /\ stage' = "gen"
    /\ next' = 1
    /\ bytecode' = <<>>
    /\ UNCHANGED <<lexed, given, text, pos, token, statements, err, pc, stack, vars, output>>

\* one iteration of the loop over ast (compiler.py:191-192)
GenStatement ==
    /\ stage = "gen"
    /\ next <= Len(statements)
    /\ LET g == gen(statements[next]) IN
       /\ bytecode' = bytecode \o g.code
       /\ IF g.err # NoErr
          THEN Abort(g.err) /\ UNCHANGED next
          ELSE next' = next + 1 /\ UNCHANGED <<stage, err>>
    /\ UNCHANGED <<lexed, given, text, pos, token, statements, pc, stack, vars, output>>

\* a VM whose stack and vars are shared by all VM objects (class attributes
\* or module globals), so that constructing one resets neither
VMInitShared ==
    /\ stage = "gen"
    /\ next > Len(statements)
    /\ stage' = "run"
    /\ pc' = 1
    /\ UNCHANGED <<stack, vars>>
    /\ UNCHANGED <<lexed, given, text, pos, token, statements, err, next, bytecode, output>>

\* VM(codegen.bytecode) (compiler.py:194)
VMInit ==
    /\ stage = "gen"
    /\ next > Len(statements)
    /\ stage' = "run"
    /\ pc' = 1
    /\ stack' = <<>>
    /\ vars' = NoVars
    /\ UNCHANGED <<lexed, given, text, pos, token, statements, err, next, bytecode, output>>

\* a pipeline that runs the instructions emitted so far while statements are
\* still being compiled
VMStepEarly ==
    /\ stage \in {"gen", "run"}
    /\ pc <= Len(bytecode)
    /\ LET m == Exec(bytecode[pc], stack, vars, output) IN
       /\ stack' = m.stack
       /\ vars' = m.vars
       /\ output' = m.output
       /\ IF m.err # NoErr
          THEN Abort(m.err) /\ UNCHANGED pc
          ELSE pc' = pc + 1 /\ UNCHANGED <<stage, err>>
    /\ UNCHANGED <<lexed, given, text, pos, token, statements, next, bytecode>>

\* one iteration of the loop of VM.run (compiler.py:160-182)
VMStep ==
    /\ stage = "run"
    /\ pc <= Len(bytecode)
    /\ LET m == Exec(bytecode[pc], stack, vars, output) IN
       /\ stack' = m.stack
       /\ vars' = m.vars
       /\ output' = m.output
       /\ IF m.err # NoErr
          THEN Abort(m.err) /\ UNCHANGED pc
          ELSE pc' = pc + 1 /\ UNCHANGED <<stage, err>>
    /\ UNCHANGED <<lexed, given, text, pos, token, statements, next, bytecode>>

\* VM.run and run_compiler return (compiler.py:195)
RunReturn ==
    /\ stage = "run"
    /\ pc > Len(bytecode)
    /\ stage' = "done"
    /\ UNCHANGED <<lexed, given, text, pos, token, statements, err, next, bytecode,
                   pc, stack, vars, output>>

Next ==
    \/ ParserInit
    \/ ParseStatement
    \/ ParseReturn
    \/ GenStatement
    \/ VMInit
    \/ VMStep
    \/ RunReturn

Spec == Init /\ [][Next]_vars_

(***************************************************************************)
(* The bytecode-level specification: VM.run on the code that CodeGen.gen   *)
(* emits for one well-formed statement, started from an operand stack and  *)
(* a variable store that need not be empty.                                *)
(***************************************************************************)
\* the parser's node for a tree of the spec's data model
RECURSIVE Ast(_)
Ast(e) ==
    CASE e[1] = "NumberLiteral" -> <<"number", e[2]>>
      [] e[1] = "VariableRef" -> <<"var", e[2]>>
      [] e[1] = "BinaryOp" ->
            <<"binop",
              CASE e[2] = "+" -> PLUS [] e[2] = "-" -> MINUS
                [] e[2] = "*" -> TIMES [] e[2] = "/" -> DIVIDE,
              Ast(e[3]), Ast(e[4])>>
      [] e[1] = "Assign" -> <<"assign", e[2], Ast(e[3])>>
      [] e[1] = "PrintStmt" -> <<"print", Ast(e[2])>>

MachineOperands == {<<"NumberLiteral", 2>>, <<"VariableRef", x_>>}

\* one operand stack of each depth up to MaxDepth, all values distinct
InitialStacks == {[i \in 1..d |-> 10 * i - 17] : d \in 0..MaxDepth}

\* a second name, which no statement of this specification assigns
y_ == <<"y">>

InitialVars ==
    {NoVars} \cup {[n \in {x_} |-> v] : v \in {0, 0 - 7}}
             \cup {[n \in {x_, y_} |-> IF n = x_ THEN 0 - 7 ELSE 5]}

\* every statement whose expression has at most MaxOps operators over the
\* operands 2 and x
InitVM ==
    \E n \in 1..(MaxOps + 1), stack0 \in InitialStacks, vars0 \in InitialVars :
        \E shapes \in {<<<<kind, t>>>> : kind \in {"Assign", "PrintStmt"},
                                        t \in TreeShapes(n)},
           operands \in [1..n -> MachineOperands],
           operators \in [1..(n - 1) -> Operators] :
            /\ LET s == FillProgram(shapes, 1, operands, operators)[1] IN
               /\ given = [kind |-> "machine", body |-> <<s, stack0, vars0>>]
               /\ text = <<>>
               /\ pos = 0
               /\ token = Token(EOF, None)
               /\ statements = <<Ast(s)>>
               /\ stage = "run"
               /\ err = NoErr
               /\ next = 2
               /\ bytecode = gen(Ast(s)).code
               /\ pc = 1
               /\ stack = stack0
               /\ vars = vars0
               /\ output = <<>>
               /\ lexed = <<>>

NextVM == VMStep \/ RunReturn

SpecVM == InitVM /\ [][NextVM]_vars_

(***************************************************************************)
(* The reference semantics of the spec's data model: * and / bind tighter  *)
(* than + and - and equal operators associate to the left (this is how     *)
(* Unparse writes a tree out), each operator computes left op right, and   *)
(* / rounds toward minus infinity.                                         *)
(***************************************************************************)
Abs(n) == IF n < 0 THEN 0 - n ELSE n

\* the q with q*b <= a < (q+1)*b when b > 0, and (q+1)*b < a <= q*b when b < 0
Quotient(a, b) ==
    CHOOSE q \in (0 - Abs(a))..Abs(a) :
        IF b > 0 THEN q * b <= a /\ a < (q + 1) * b
        ELSE (q + 1) * b < a /\ a <= q * b

Value(ok, v) == [ok |-> ok, v |-> v]

ApplyOp(o, l, r) ==
    IF ~l.ok \/ ~r.ok THEN Value(FALSE, 0)
    ELSE CASE o = "+" -> Value(TRUE, l.v + r.v)
           [] o = "-" -> Value(TRUE, l.v - r.v)
           [] o = "*" -> Value(TRUE, l.v * r.v)
           [] o = "/" -> IF r.v = 0 THEN Value(FALSE, 0)
                         ELSE Value(TRUE, Quotient(l.v, r.v))

RECURSIVE Eval(_, _)
Eval(e, env) ==
    CASE e[1] = "NumberLiteral" -> Value(TRUE, e[2])
      [] e[1] = "VariableRef" ->
            IF e[2] \in DOMAIN env THEN Value(TRUE, env[e[2]]) ELSE Value(FALSE, 0)
      [] e[1] = "BinaryOp" -> ApplyOp(e[2], Eval(e[3], env), Eval(e[4], env))

Outcome(ok, env, out) == [ok |-> ok, env |-> env, out |-> out]

\* p run from the outcome so far: valid as long as every variable is
\* assigned before use and no divisor is zero
RECURSIVE Run(_, _)
Run(p, sofar) ==
    IF Len(p) = 0 \/ ~sofar.ok THEN sofar
    ELSE LET s == Head(p)
             v == Eval(s[Len(s)], sofar.env) IN
         IF ~v.ok THEN Outcome(FALSE, sofar.env, sofar.out)
         ELSE IF s[1] = "Assign"
         THEN Run(Tail(p), Outcome(TRUE,
                 [n \in (DOMAIN sofar.env) \cup {s[2]} |->
                     IF n = s[2] THEN v.v ELSE sofar.env[n]], sofar.out))
         ELSE Run(Tail(p), Outcome(TRUE, sofar.env, Append(sofar.out, v.v)))

Reference(p) == Run(p, Outcome(TRUE, NoVars, <<>>))

IsPrefix(a, b) == Len(a) <= Len(b) /\ a = SubSeq(b, 1, Len(a))

Lines(vs) == [i \in 1..Len(vs) |-> str(vs[i])]

Running == stage = "run" /\ pc <= Len(bytecode)

(***************************************************************************)
(* The claims.                                                             *)
(***************************************************************************)

\* C1: for every valid program (every variable assigned before use, no zero
\* divisor) run_compiler raises nothing, and the lines it prints are at
\* every moment a prefix of, and on return exactly, the values the
\* reference semantics gives the program's print statements, in order.
C1_PrintsReferenceValues ==
    (given.kind = "program" /\ Reference(given.body).ok) =>
        /\ stage # "error"
        /\ IsPrefix(output, Lines(Reference(given.body).out))
        /\ stage = "done" => output = Lines(Reference(given.body).out)

\* `print 7 - 2 - 2` has printed 3, which is (7 - 2) - 2 and not 7 - (2 - 2)
C1_Witness ==
    /\ stage = "done"
    /\ given.kind = "program"
    /\ text = Join(<<print_, <<"7">>, <<"-">>, <<"2">>, <<"-">>, <<"2">>>>)
    /\ output = <<<<"3">>>>

\* C2: whenever the statement loop of parse() is at a token that is neither
\* IDENT, PRINT nor EOF, its next step raises the parser's "Expected ..."
\* exception: nothing is appended to the statement list and the call ends.
C2_BadStatementStartRaises ==
    [][(stage = "parse" /\ token.type \notin {IDENT, PRINT, EOF}) =>
          /\ stage' = "error"
          /\ err'.exc = "Exception"
          /\ err'.msg[1] = "Expected"
          /\ statements' = statements]_vars_

\* the characters not lexed yet, plus one for a current token other than EOF
Remaining == (Len(text) - pos) + (IF token.type = EOF THEN 0 ELSE 1)

\* C3: every iteration of the statement loop of Parser.parse that does not
\* raise consumes at least one token, so the loop cannot iterate forever.
C3_EveryIterationConsumes ==
    [][(stage = "parse" /\ stage' = "parse") => Remaining' < Remaining]_vars_

RECURSIVE WellFormedExpr(_)
WellFormedExpr(node) ==
    /\ node # None
    /\ CASE node[1] = "number" -> Len(node) = 2
         [] node[1] = "var" -> Len(node) = 2
         [] node[1] = "binop" ->
               /\ Len(node) = 4
               /\ node[2] \in {PLUS, MINUS, TIMES, DIVIDE}
               /\ WellFormedExpr(node[3])
               /\ WellFormedExpr(node[4])
         [] OTHER -> FALSE

WellFormedStmt(node) ==
    /\ node # None
    /\ CASE node[1] = "assign" -> WellFormedExpr(node[3])
         [] node[1] = "print" -> WellFormedExpr(node[2])
         [] OTHER -> FALSE

\* C4: every statement list that parse() returns holds only well-formed
\* assign and print nodes (a missing operand having raised in the parser),
\* and CodeGen.gen never fails on it.
C4_ParsedStatementsWellFormed ==
    /\ stage \in {"gen", "run", "done"} =>
          \A i \in 1..Len(statements) : WellFormedStmt(statements[i])
    /\ err.exc # "TypeError"

StoredBefore(name) ==
    \E j \in 1..(pc - 1) : bytecode[j][1] = "STORE" /\ bytecode[j][2] = name

\* C5: a LOAD of a name that no earlier STORE of the run has bound raises
\* KeyError naming it (Python's undefined-variable error): nothing is
\* pushed, the store and the printed lines are untouched, and no step
\* follows an error; for `print x` nothing is ever printed.
C5_LoadOfUnboundNameFails ==
    [][/\ stage # "error"
       /\ (Running /\ bytecode[pc][1] = "LOAD" /\ ~StoredBefore(bytecode[pc][2])) =>
             /\ stage' = "error"
             /\ err'.exc = "KeyError"
             /\ err'.msg = <<bytecode[pc][2]>>
             /\ pc' = pc
             /\ stack' = stack
             /\ vars' = vars
             /\ output' = output
       /\ text = Join(<<print_, x_>>) => output' = <<>> /\ stage' # "done"]_vars_

\* a run has stopped at a LOAD of the unbound x, with KeyError naming x and
\* instructions still to come
C5_Witness ==
    /\ stage = "error"
    /\ err.exc = "KeyError"
    /\ err.msg = <<x_>>
    /\ bytecode[pc] = <<"LOAD", x_>>
    /\ pc < Len(bytecode)

\* C6: a DIV whose divisor (the value pushed last) is 0 raises
\* ZeroDivisionError: both operands are popped, no result is pushed, the
\* store and the printed lines are untouched, and no step follows an error.
C6_DivByZeroFails ==
    [][/\ stage # "error"
       /\ (Running /\ bytecode[pc][1] = "DIV" /\ Len(stack) >= 2 /\ Top(stack) = 0) =>
             /\ stage' = "error"
             /\ err'.exc = "ZeroDivisionError"
             /\ pc' = pc
             /\ stack' = Pop(Pop(stack))
             /\ vars' = vars
             /\ output' = output]_vars_

\* a run has stopped at a DIV, with a PRINT or STORE still to come
C6_Witness ==
    /\ stage = "error"
    /\ err.exc = "ZeroDivisionError"
    /\ bytecode[pc] = <<"DIV">>
    /\ pc < Len(bytecode)

\* the operands instruction instr pops
Needs(instr) ==
    CASE instr[1] \in {"ADD", "SUB", "MUL", "DIV"} -> 2
      [] instr[1] \in {"STORE", "PRINT"} -> 1
      [] OTHER -> 0

\* C7: on generated bytecode VM.run never pops an empty stack: the stack
\* holds at least 1 value at every STORE and PRINT and at least 2 at every
\* ADD, SUB, MUL and DIV, and IndexError is never raised.
C7_NoStackUnderflow ==
    /\ Running => Len(stack) >= Needs(bytecode[pc])
    /\ err.exc # "IndexError"

\* an arithmetic instruction is about to run on a stack of three values
C7_Witness ==
    /\ Running
    /\ Needs(bytecode[pc]) = 2
    /\ Len(stack) = 3

\* C8: the code of an expression, run from a stack of depth d to its end
\* without an error, leaves depth d + 1, the d values below and the
\* variable store as they were, and prints nothing.  (The expressions drawn
\* are closed under subtrees, so each subtree is checked as a root.)
C8_ExpressionPushesOneValue ==
    (given.kind = "machine" /\ stage = "run" /\ pc = Len(bytecode)) =>
        /\ Len(stack) = Len(given.body[2]) + 1
        /\ SubSeq(stack, 1, Len(given.body[2])) = given.body[2]
        /\ vars = given.body[3]
        /\ output = <<>>

\* the code of a binop over a bound x has run from a stack of depth two
C8_Witness ==
    /\ given.kind = "machine"
    /\ stage = "run"
    /\ pc = Len(bytecode)
    /\ Len(bytecode) >= 6
    /\ Len(given.body[2]) = 2
    /\ x_ \in DOMAIN vars
    /\ \E j \in 1..Len(bytecode) : bytecode[j] = <<"LOAD", x_>>

RECURSIVE Count(_, _)
Count(q, e) ==
    IF Len(q) = 0 THEN 0
    ELSE (IF Head(q) = e THEN 1 ELSE 0) + Count(Tail(q), e)

\* the print statements of the source
PrintsInSource ==
    IF given.kind = "program"
    THEN Count([i \in 1..Len(given.body) |-> given.body[i][1]], "PrintStmt")
    ELSE Count(given.body, print_)

\* C9: the printed lines change only when a PRINT instruction runs, which
\* appends one line, the decimal text of the value on top of the stack; so
\* during a run there is one line per PRINT executed so far, and a call
\* that returns has printed one line per print statement of the source.
C9_OneLinePerPrint ==
    /\ [](stage = "run" =>
            Len(output) = Count(SubSeq(bytecode, 1, pc - 1), <<"PRINT">>))
    /\ [](stage = "done" => Len(output) = PrintsInSource)
    /\ [][output' # output =>
            /\ Running
            /\ bytecode[pc] = <<"PRINT">>
            /\ output' = Append(output, str(Top(stack)))]_vars_

\* a call with an assignment and two print statements has returned
C9_Witness ==
    /\ stage = "done"
    /\ given.kind = "program"
    /\ Len(output) = 2
    /\ x_ \in DOMAIN vars

\* C10: a call that ends in an error has printed no line.
C10_NoOutputWithError == stage = "error" => output = <<>>


(***************************************************************************)
(* The order of the stages of run_compiler.                                *)
(***************************************************************************)
\* the virtual machine of this call has executed no instruction
NothingExecuted ==
    /\ pc = 1
    /\ stack = <<>>
    /\ vars = NoVars
    /\ output = <<>>

\* the lexer, the parser and the code generator have gone through the whole
\* source
FrontEndComplete ==
    /\ token.type = EOF
    /\ next = Len(statements) + 1
    /\ err = NoErr

\* C11: no instruction is executed before the whole source is lexed, parsed
\* and compiled: while the call is in an earlier stage nothing is on the
\* stack, bound or printed, an instruction only runs after the front end is
\* complete, and a call that the lexer, the parser or the code generator
\* ended with an error has executed no instruction.
C11_StagesStrictlyOrdered ==
    /\ stage \in {"init", "parse", "gen"} => NothingExecuted
    /\ stage \in {"run", "done"} => FrontEndComplete
    /\ stage = "error" /\ err.exc \in {"Exception", "TypeError"} => NothingExecuted

\* a statement was not accepted after a whole print statement was (the
\* source `print 7 x`), and nothing was printed
C11_Witness ==
    /\ stage = "error"
    /\ err.exc = "Exception"
    /\ Len(statements) >= 1
    /\ statements[1][1] = "print"
    /\ output = <<>>


Offender == pos - 1

\* the lexer has raised on a character that starts no token
UnknownCharacter ==
    /\ stage = "error"
    /\ err.exc = "Exception"
    /\ err.msg[1] = "Unknown character"

\* C13: when the lexer reaches a character that starts no token, the error
\* it raises identifies the character and its index in the source, and the
\* call prints nothing.
C13_LexErrorHasCharAndPosition ==
    UnknownCharacter =>
        /\ err.msg = <<"Unknown character", CharAt(text, Offender), Offender>>
        /\ output = <<>>


(***************************************************************************)
(* The lexer-level specification: a caller that constructs a Lexer over a  *)
(* text and calls next_token over and over, also after the end of the      *)
(* text.  A text is written as at most MaxPieces pieces with nothing       *)
(* between them, so that runs of letters and digits of several shapes       *)
(* arise; the caller makes at most MaxCalls calls.                         *)
(***************************************************************************)
Pieces ==
    {print_, <<"P", "r", "i", "n", "t">>, <<"P", "R", "I", "N", "T">>, x_,
     <<"1">>, <<" ">>, <<"+">>, <<"&">>}

RECURSIVE Concat(_)
Concat(pieces) ==
    IF pieces = <<>> THEN <<>> ELSE Head(pieces) \o Concat(Tail(pieces))

\* Lexer.__init__ (compiler.py:19-21)
InitLex ==
    \E pieces \in SeqsUpTo(Pieces, MaxPieces) :
        /\ given = [kind |-> "pieces", body |-> pieces]
        /\ text = Concat(pieces)
        /\ pos = 0
        /\ token = Token(EOF, None)
        /\ statements = <<>>
        /\ stage = "lex"
        /\ err = NoErr
        /\ next = 1
        /\ bytecode = <<>>
        /\ pc = 1
        /\ stack = <<>>
        /\ vars = NoVars
        /\ output = <<>>
        /\ lexed = <<>>

\* one call of Lexer.next_token (compiler.py:23-56)
NextToken ==
    /\ stage = "lex"
    /\ Len(lexed) < MaxCalls
    /\ LET t == next_token(text, pos) IN
       /\ pos' = t.pos
       /\ IF t.err # NoErr
          THEN Abort(t.err) /\ UNCHANGED <<token, lexed>>
          ELSE /\ token' = t.tok
               /\ lexed' = Append(lexed, t.tok)
               /\ UNCHANGED <<stage, err>>
    /\ UNCHANGED <<given, text, statements, next, bytecode, pc, stack, vars, output>>

SpecLex == InitLex /\ [][NextToken]_vars_

\* the last call of next_token returned the END token
AtEnd == lexed # <<>> /\ lexed[Len(lexed)].type = EOF

\* C14: once next_token has returned the END token, every later call
\* returns the END token too, raises nothing and leaves pos as it is.
C14_EndIsAbsorbing ==
    [][AtEnd =>
        /\ stage' = "lex"
        /\ pos' = pos
        /\ lexed' # lexed => lexed' = Append(lexed, Token(EOF, None))]_vars_

\* a token, then the END token three times over
C14_Witness ==
    /\ Len(lexed) >= 4
    /\ lexed[1].type # EOF
    /\ \A i \in 2..4 : lexed[i].type = EOF


(***************************************************************************)
(* Words.  The run of letters and digits that starts where next_token      *)
(* begins to read is found here by its defining property, not by a scan.   *)
(***************************************************************************)
Letter(c) ==
    \E i \in 1..26 :
        \/ c = <<"a", "b", "c", "d", "e", "f", "g", "h", "i", "j", "k", "l", "m",
                 "n", "o", "p", "q", "r", "s", "t", "u", "v", "w", "x", "y", "z">>[i]
        \/ c = <<"A", "B", "C", "D", "E", "F", "G", "H", "I", "J", "K", "L", "M",
                 "N", "O", "P", "Q", "R", "S", "T", "U", "V", "W", "X", "Y", "Z">>[i]

Digit(c) == c \in {"0", "1", "2", "3", "4", "5", "6", "7", "8", "9"}

Blank(c) == c \in {" ", "\t", "\n", "\r"}

\* the index of the first character at or after from that is not whitespace,
\* or the length of the text
FirstNonBlank(from) ==
    CHOOSE p \in from..Len(text) :
        /\ \A i \in from..(p - 1) : Blank(CharAt(text, i))
        /\ p = Len(text) \/ ~Blank(CharAt(text, p))

\* the index just after the maximal run of letters and digits that starts
\* at index p
RunEnd(p) ==
    CHOOSE e \in p..Len(text) :
        /\ \A i \in p..(e - 1) : Letter(CharAt(text, i)) \/ Digit(CharAt(text, i))
        /\ e = Len(text) \/ ~(Letter(CharAt(text, e)) \/ Digit(CharAt(text, e)))

\* C15: when the next thing in the text is a maximal run of letters and
\* digits that starts with a letter, next_token returns one token for the
\* whole run: PRINT if and only if the run is exactly the word print, and
\* otherwise IDENT with the whole run as its name.
C15_KeywordIsExactMatch ==
    [][LET p == FirstNonBlank(pos) IN
       stage = "lex" /\ p < Len(text) /\ Letter(CharAt(text, p)) =>
           LET run == Slice(text, p, RunEnd(p)) IN
           /\ lexed' = Append(lexed, token')
           /\ pos' = RunEnd(p)
           /\ token'.type = PRINT <=> run = print_
           /\ token'.type # PRINT =>
                  token'.type = IDENT /\ token'.value = run]_vars_

\* the text print1 was read as one identifier
C15_Witness ==
    /\ Len(lexed) >= 1
    /\ lexed[1].type = IDENT
    /\ lexed[1].value = print_ \o <<"1">>
    /\ pos = 6


(***************************************************************************)
(* The lexer's cursor.                                                     *)
(***************************************************************************)
\* the number of tokens other than END among those returned so far
NonEnd == Cardinality({i \in 1..Len(lexed) : lexed[i].type # EOF})

CursorInText ==
    /\ 0 <= pos
    /\ pos <= Len(text)
    /\ NonEnd <= Len(text)

CursorAdvances ==
    /\ pos' >= pos
    /\ lexed' # lexed /\ token'.type # EOF => pos' > pos
    /\ stage = "lex" /\ stage' = "error" => pos' > pos

\* C20: pos is always between 0 and the length of the text and never
\* decreases; a call of next_token that returns a token other than END, or
\* that raises on an unknown character, strictly increases pos; so no more
\* tokens other than END are returned than the text has characters.
C20_CursorBoundedAndMonotonic == []CursorInText /\ [][CursorAdvances]_vars_

\* two tokens were returned and the third call raised on the last character
\* of a text of three characters
C20_Witness ==
    /\ UnknownCharacter
    /\ NonEnd = 2
    /\ Len(text) = 3
    /\ pos = 3


(***************************************************************************)
(* A later call of run_compiler: its code generator has finished, and the  *)
(* stack and the store of the VM of an earlier call still hold what that   *)
(* call left in them.  The call compiles one well-formed statement.        *)
(***************************************************************************)
InitLater ==
    \E n \in 1..(MaxOps + 1), stack0 \in InitialStacks, vars0 \in InitialVars :
        \E shapes \in {<<<<kind, t>>>> : kind \in {"Assign", "PrintStmt"},
                                        t \in TreeShapes(n)},
           operands \in [1..n -> MachineOperands],
           operators \in [1..(n - 1) -> Operators] :
            /\ LET s == FillProgram(shapes, 1, operands, operators)[1] IN
               /\ given = [kind |-> "later", body |-> <<s, stack0, vars0>>]
               /\ text = <<>>
               /\ pos = 0
               /\ token = Token(EOF, None)
               /\ statements = <<Ast(s)>>
               /\ stage = "gen"
               /\ err = NoErr
               /\ next = 2
               /\ bytecode = gen(Ast(s)).code
               /\ pc = 1
               /\ stack = stack0
               /\ vars = vars0
               /\ output = <<>>
               /\ lexed = <<>>

NextLater == VMInit \/ VMStep \/ RunReturn

SpecLater == InitLater /\ [][NextLater]_vars_

\* the machine that has executed nothing
Fresh == Machine(<<>>, NoVars, <<>>, NoErr)

ReplayStep(instr, m) ==
    IF m.err # NoErr THEN m ELSE Exec(instr, m.stack, m.vars, m.output)

\* the machine after the first k instructions of code, executed from Fresh:
\* a function of the code alone
RECURSIVE Replay(_, _)
Replay(code, k) ==
    IF k = 0 THEN Fresh ELSE ReplayStep(code[k], Replay(code, k - 1))

Executed == IF stage = "error" THEN pc ELSE pc - 1

\* C16: an execution starts with an empty stack and an empty store, whatever
\* an earlier execution left behind, and what it computes depends on its
\* bytecode alone: at every point of the run the stack, the store, the
\* printed lines and the error are those of the same instructions executed
\* from the machine that has executed nothing.
C16_ExecutionsAreIndependent ==
    stage \in {"run", "done", "error"} =>
        LET m == Replay(bytecode, Executed) IN
        /\ stack = m.stack
        /\ vars = m.vars
        /\ output = m.output
        /\ err.exc = m.err.exc

\* the earlier execution left two values on the stack and x bound; this one
\* reads x and fails, because for it x is not bound
C16_Witness ==
    /\ given.kind = "later"
    /\ Len(given.body[2]) = 2
    /\ x_ \in DOMAIN given.body[3]
    /\ stage = "error"
    /\ err.exc = "KeyError"
    /\ stack = <<>>


(***************************************************************************)
(* Division.                                                               *)
(***************************************************************************)
\* q is the quotient of a by b rounded toward minus infinity
IsFloor(q, a, b) ==
    IF b > 0
    THEN q * b <= a /\ a < (q + 1) * b
    ELSE q * b >= a /\ a > (q + 1) * b

\* C17: whenever DIV executes with a below the top of the stack and a
\* nonzero b on top, it replaces the two by the quotient of a by b rounded
\* toward minus infinity.
C17_DivRoundsDown ==
    [][Running /\ bytecode[pc][1] = "DIV" /\ Len(stack) >= 2 /\ Top(stack) # 0 =>
        /\ stage' = "run"
        /\ Len(stack') = Len(stack) - 1
        /\ Pop(stack') = Pop(Pop(stack))
        /\ IsFloor(Top(stack'), Top(Pop(stack)), Top(stack))]_vars_

\* x / 2 has just been computed with x bound to -7, and -4 was pushed
C17_Witness ==
    /\ stage = "run"
    /\ pc = 4
    /\ bytecode[1] = <<"LOAD", x_>>
    /\ bytecode[2] = <<"PUSH", 2>>
    /\ bytecode[3] = <<"DIV">>
    /\ x_ \in DOMAIN vars
    /\ vars[x_] = 0 - 7
    /\ stack # <<>>
    /\ Top(stack) = 0 - 4


(***************************************************************************)
(* The parser-level specification: Parser.parse over every source of at    *)
(* most MaxWords lexemes out of the ones that an expression in parentheses *)
(* is written with.                                                        *)
(***************************************************************************)
Words == {print_, x_, <<"7">>, <<"=">>, <<"+">>, <<"(">>, <<")">>}

InitParse ==
    \E l \in SeqsUpTo(Words, MaxWords) :
        Start([kind |-> "words", body |-> l], Join(l))

NextParse == ParserInit \/ ParseStatement \/ ParseReturn

SpecParse == InitParse /\ [][NextParse]_vars_

\* what a statement starts with before its expression
Heads == {<<print_>>, <<x_, <<"=">>>>}

\* complete expressions of at most three lexemes
ShortExprs ==
    LET operand == {<<"7">>, x_} IN
    {<<a>> : a \in operand}
        \cup {<<a, <<"+">>, b>> : a \in operand, b \in operand}
        \cup {<<<<"(">>, a, <<")">>>> : a \in operand}

\* the type of the token that the lexeme after the expression is read as;
\* it neither closes the parenthesis nor continues the expression
TypeAfter(l, n) ==
    IF Len(l) = n THEN EOF
    ELSE CASE l[n + 1] = <<"7">> -> NUMBER
           [] l[n + 1] = x_ -> IDENT
           [] l[n + 1] = print_ -> PRINT
           [] l[n + 1] = <<"=">> -> ASSIGN
           [] l[n + 1] = <<"(">> -> LPAREN
           [] OTHER -> ""

\* C18: when the first statement of the source is a statement head, `(`, a
\* complete expression and then something other than `)`, parsing it raises
\* "Expected RPAREN, got" the type of the token found there, and parse
\* returns no statement list.
C18_MissingRParenRaises ==
    [][stage = "parse" /\ statements = <<>> /\ given.kind = "words" =>
        \A h \in Heads, e \in ShortExprs :
            LET l == given.body
                n == Len(h) + 1 + Len(e) IN
            Len(l) >= n /\ SubSeq(l, 1, n) = h \o <<<<"(">>>> \o e
                /\ TypeAfter(l, n) # "" =>
                /\ stage' = "error"
                /\ err' = Raise("Exception",
                                <<"Expected", RPAREN, "got", TypeAfter(l, n)>>)
                /\ statements' = <<>>]_vars_

\* the source `print ( 7 x` was refused with "Expected RPAREN, got IDENT"
C18_Witness ==
    /\ given.kind = "words"
    /\ given.body = <<print_, <<"(">>, <<"7">>, x_>>
    /\ stage = "error"
    /\ err.exc = "Exception"
    /\ err.msg = <<"Expected", RPAREN, "got", IDENT>>
    /\ statements = <<>>


(***************************************************************************)
(* The depth of the operand stack.                                         *)
(***************************************************************************)
\* what an instruction adds to the depth of the stack
Effect(instr) == IF instr[1] \in {"PUSH", "LOAD"} THEN 1 ELSE 0 - 1

\* the last instruction of a statement's code
EndsStatement(instr) == instr[1] \in {"STORE", "PRINT"}

\* the sum of the effects of those of the first k instructions of code that
\* belong to the statement in progress after them: a function of that
\* statement's instructions alone
RECURSIVE DepthInStatement(_, _)
DepthInStatement(code, k) ==
    IF k = 0 THEN 0
    ELSE IF EndsStatement(code[k]) THEN 0
    ELSE DepthInStatement(code, k - 1) + Effect(code[k])

\* C19: during a run of the code of well-formed statements the depth of the
\* stack is the sum of the effects of the instructions executed so far of
\* the statement in progress; so the stack is empty after the last
\* instruction of every statement and when the run has ended.
C19_StackEmptyBetweenStatements ==
    /\ stage = "run" =>
          /\ Len(stack) = DepthInStatement(bytecode, pc - 1)
          /\ pc > 1 /\ EndsStatement(bytecode[pc - 1]) => stack = <<>>
    /\ stage = "done" => stack = <<>>

\* a print statement and then an assignment have run and more code follows:
\* the stack is empty
C19_Witness ==
    /\ stage = "run"
    /\ pc > 1
    /\ pc <= Len(bytecode)
    /\ bytecode[pc - 1][1] = "STORE"
    /\ output # <<>>
    /\ stack = <<>>

====
